---- MODULE Spec2Model ----
(***************************************************************************)
(* A model of jsh-api (EtixLabs/jsh-api): the Resource router              *)
(* (src/resource.go) mounted in the top-level API (src/unnamed/part_000).  *)
(*                                                                         *)
(* Strings are TLA+ strings and are taken apart character by character     *)
(* with SubSeq, so that strings.Contains, strings.HasPrefix, fmt.Sprintf,  *)
(* path.Join and the goji pat matcher are computed as the code computes    *)
(* them.                                                                   *)
(***************************************************************************)
EXTENDS Naturals, Sequences, FiniteSets, TLC

(***************************************************************************)
(* Bounds of the model.                                                    *)
(***************************************************************************)
\* The number of registration calls made on the resource.
MaxCalls == 2
\* The number of calls of API.Add.
MaxAdds == 3

(***************************************************************************)
(* Constants of src/resource.go, lines 20-29.                              *)
(***************************************************************************)
post == "POST"
get == "GET"
delete == "DELETE"
patch == "PATCH"
head == "HEAD"
options == "OPTIONS"
patID == "/:id"
patRoot == ""

(***************************************************************************)
(* Strings.                                                                *)
(***************************************************************************)
Char(s, i) == SubSeq(s, i, i)

Drop(s, n) == SubSeq(s, n + 1, Len(s))

\* strings.HasPrefix
HasPrefix(s, p) == Len(p) <= Len(s) /\ SubSeq(s, 1, Len(p)) = p

\* strings.HasSuffix
HasSuffix(s, p) == Len(p) <= Len(s) /\ SubSeq(s, Len(s) - Len(p) + 1, Len(s)) = p

\* strings.Contains: sub occurs in s as a substring.
Contains(s, sub) ==
    \E i \in 1..(Len(s) + 1) :
        /\ i + Len(sub) - 1 <= Len(s)
        /\ SubSeq(s, i, i + Len(sub) - 1) = sub

\* The elements of a sequence of strings joined with sep (strings.Join).
RECURSIVE JoinWith(_, _)
JoinWith(elems, sep) ==
    IF elems = <<>> THEN ""
    ELSE IF Len(elems) = 1 THEN elems[1]
    ELSE elems[1] \o sep \o JoinWith(Tail(elems), sep)

\* s split at every "/" (strings.Split(s, "/")): "/a/b" gives <<"", "a", "b">>.
RECURSIVE splitFrom(_, _, _, _)
splitFrom(s, from, i, acc) ==
    IF i > Len(s) THEN Append(acc, SubSeq(s, from, Len(s)))
    ELSE IF Char(s, i) = "/"
         THEN splitFrom(s, i + 1, i + 1, Append(acc, SubSeq(s, from, i - 1)))
    ELSE splitFrom(s, from, i + 1, acc)

Split(s) == splitFrom(s, 1, 1, <<>>)

(***************************************************************************)
(* path.Clean and path.Join of the Go standard library, as used by         *)
(* Resource.Action and API.Add.                                            *)
(***************************************************************************)
RECURSIVE cleanSegs(_, _, _)
cleanSegs(segs, out, rooted) ==
    IF segs = <<>> THEN out
    ELSE LET s == Head(segs)
             rest == Tail(segs)
         IN  IF s = "" \/ s = "." THEN cleanSegs(rest, out, rooted)
             ELSE IF s = ".." THEN
                 IF out # <<>> /\ out[Len(out)] # ".."
                 THEN cleanSegs(rest, SubSeq(out, 1, Len(out) - 1), rooted)
                 ELSE IF rooted THEN cleanSegs(rest, out, rooted)
                 ELSE cleanSegs(rest, Append(out, s), rooted)
             ELSE cleanSegs(rest, Append(out, s), rooted)

Clean(p) ==
    IF p = "" THEN "."
    ELSE LET rooted == Char(p, 1) = "/"
             out == cleanSegs(Split(p), <<>>, rooted)
         IN  IF rooted THEN "/" \o JoinWith(out, "/")
             ELSE IF out = <<>> THEN "."
             ELSE JoinWith(out, "/")

PathJoin(elems) ==
    LET ne == SelectSeq(elems, LAMBDA e : e # "")
    IN  IF ne = <<>> THEN "" ELSE Clean(JoinWith(ne, "/"))

(***************************************************************************)
(* goji.io/pat: a pattern is literal text with named matches ":name"; a    *)
(* named match takes one or more characters up to the next "/" or up to    *)
(* the character that follows the name in the pattern.  A pattern ending   *)
(* in "/*" is a prefix match and leaves the rest of the path, from its "/" *)
(* on, as the path of the sub-router.                                      *)
(***************************************************************************)
NameChars ==
    { "a", "b", "c", "d", "e", "f", "g", "h", "i", "j", "k", "l", "m",
      "n", "o", "p", "q", "r", "s", "t", "u", "v", "w", "x", "y", "z",
      "A", "B", "C", "D", "E", "F", "G", "H", "I", "J", "K", "L", "M",
      "N", "O", "P", "Q", "R", "S", "T", "U", "V", "W", "X", "Y", "Z",
      "0", "1", "2", "3", "4", "5", "6", "7", "8", "9", "_" }

\* The length of the longest prefix of s made of name characters.
RECURSIVE NameLen(_)
NameLen(s) ==
    IF s = "" THEN 0
    ELSE IF Char(s, 1) \in NameChars THEN 1 + NameLen(Drop(s, 1))
    ELSE 0

\* The length of the longest prefix of s holding neither "/" nor bc.
RECURSIVE RunLen(_, _)
RunLen(s, bc) ==
    IF s = "" THEN 0
    ELSE IF Char(s, 1) = "/" \/ Char(s, 1) = bc THEN 0
    ELSE 1 + RunLen(Drop(s, 1), bc)

NoMatch == [ok |-> FALSE, vars |-> <<>>, path |-> ""]

RECURSIVE matchFrom(_, _, _, _)
matchFrom(pt, path, vars, wildcard) ==
    IF pt = "" THEN
        IF wildcard THEN [ok |-> TRUE, vars |-> vars, path |-> "/" \o path]
        ELSE IF path = "" THEN [ok |-> TRUE, vars |-> vars, path |-> ""]
        ELSE NoMatch
    ELSE IF Char(pt, 1) = ":" /\ NameLen(Drop(pt, 1)) > 0 THEN
        LET n == NameLen(Drop(pt, 1))
            rest == Drop(pt, n + 1)
            bc == IF rest = "" THEN "/" ELSE Char(rest, 1)
            m == RunLen(path, bc)
        IN  IF m = 0 THEN NoMatch
            ELSE matchFrom(rest, Drop(path, m),
                           Append(vars, <<SubSeq(pt, 2, n + 1), SubSeq(path, 1, m)>>),
                           wildcard)
    ELSE IF path # "" /\ Char(path, 1) = Char(pt, 1)
        THEN matchFrom(Drop(pt, 1), Drop(path, 1), vars, wildcard)
    ELSE NoMatch

\* pat.New(raw).Match on a request path: [ok, vars, path].
PatMatch(raw, path) ==
    IF HasSuffix(raw, "/*")
    THEN matchFrom(SubSeq(raw, 1, Len(raw) - 1), path, <<>>, TRUE)
    ELSE matchFrom(raw, path, <<>>, FALSE)

\* pat.Param(ctx, name) after a match.
PatParam(m, name) ==
    LET hits == SelectSeq(m.vars, LAMBDA v : v[1] = name)
    IN  IF hits = <<>> THEN "" ELSE hits[1][2]

(***************************************************************************)
(* The state.                                                              *)
(*   api       the API of src/unnamed/part_000: prefix, Resources, Mux     *)
(*   res       the Resource of src/resource.go: Type, Routes,              *)
(*             Relationships, Mux (the embedded goji sub-router)           *)
(*   EnableClientGeneratedIDs   the package variable of src/resource.go    *)
(*   registered  the registration calls made on res so far, in order       *)
(*   rt        the request being served: its routing, the storage calls    *)
(*             its handler made and the responses it wrote                 *)
(***************************************************************************)
VARIABLES api, res, EnableClientGeneratedIDs, registered, rt

vars == <<api, res, EnableClientGeneratedIDs, registered, rt>>

(***************************************************************************)
(* Inputs of the model.                                                    *)
(***************************************************************************)
\* The resource type, the relationship name and the action name in use.
ResourceType == "T"
ToOneNames == {"o"}
ToManyNames == {"m"}
ActionNames == {"a"}

\* The prefixes given to New.
PrefixInputs == {"", "api"}

\* The disallow strings given to PartialCRUD and PartialToMany, and those
\* given to PartialToOne.
DisallowInputs == {"", "POST,DELETE", "GET,PATCH"}
ToOneDisallowInputs == {"POST,DELETE", "GET,PATCH"}

\* The storage objects handed to the registration helpers.
CRUDStorage == "crud"
ToOneStorage == "toOne"
ToManyStorage == "toMany"
ActionStorage == "action"
NoStorage == <<"", "">>

(***************************************************************************)
(* The routes of a goji Mux: each holds the methods of its pattern (the    *)
(* empty set for pat.New, which takes every method), the pattern and the   *)
(* handler.                                                                *)
(***************************************************************************)
AnyMethod == {}

\* goji.Mux.HandleFuncC: the route is added after those already there.
HandleFuncC(r, methods, pattern, handler) ==
    [r EXCEPT !.Mux = Append(@, [methods |-> methods, pattern |-> pattern,
                                 handler |-> handler])]

\* A registration that installs the bound handler whatever allow says.
HandlerFor_AlwaysBound(allow, name, storage) == [name |-> name, storage |-> storage]

\* The handler a registration installs: var handler = res.notAllowedHandler;
\* if allow { handler = <the closure over storage> }.
HandlerFor(allow, name, storage) ==
    IF allow THEN [name |-> name, storage |-> storage]
    ELSE [name |-> "notAllowedHandler", storage |-> NoStorage]

\* An addRoute that puts the new route before the others.
addRoute_Prepend(r, method, route, allow) ==
    [r EXCEPT !.Routes = <<[Method |-> method,
                            Path |-> "/" \o r.Type \o route,
                            Allow |-> allow]>> \o @]

\* Resource.addRoute
addRoute(r, method, route, allow) ==
    [r EXCEPT !.Routes = Append(@, [Method |-> method,
                                    Path |-> "/" \o r.Type \o route,
                                    Allow |-> allow])]

\* NewResource: the address of the new Resource is its identity (ref); the
\* model's resource res is the one at "res".
NewResource(resourceType) ==
    [ref |-> "res", Type |-> resourceType, Routes |-> <<>>,
     Relationships |-> <<>>, Mux |-> <<>>]

\* Resource.Options
Options(r, pattern) ==
    addRoute(HandleFuncC(r, {options}, pattern,
                         [name |-> "optionsHandler", storage |-> NoStorage]),
             options, pattern, TRUE)

\* Resource.Post
Post(r, storage, allow) ==
    addRoute(HandleFuncC(r, {post}, patRoot, HandlerFor(allow, "postHandler", storage)),
             post, patRoot, allow)

\* A Get that records the GET route without its HEAD alias.
Get_NoHead(r, storage, allow) ==
    addRoute(HandleFuncC(r, {get, head}, patID,
                         HandlerFor(allow, "fetchHandler", storage)),
             get, patID, allow)

\* Resource.Get
Get(r, storage, allow) ==
    addRoute(addRoute(HandleFuncC(r, {get, head}, patID,
                                  HandlerFor(allow, "fetchHandler", storage)),
                      head, patID, allow),
             get, patID, allow)

\* A List that records the GET route only.
List_OneEntry(r, storage, allow) ==
    addRoute(HandleFuncC(r, {get, head}, patRoot,
                         HandlerFor(allow, "listHandler", storage)),
             get, patRoot, allow)

\* Resource.List
List(r, storage, allow) ==
    addRoute(addRoute(HandleFuncC(r, {get, head}, patRoot,
                                  HandlerFor(allow, "listHandler", storage)),
                      head, patRoot, allow),
             get, patRoot, allow)

\* Resource.Patch
Patch(r, storage, allow) ==
    addRoute(HandleFuncC(r, {patch}, patID, HandlerFor(allow, "patchHandler", storage)),
             patch, patID, allow)

\* Resource.Delete
Delete(r, storage, allow) ==
    addRoute(HandleFuncC(r, {delete}, patID, HandlerFor(allow, "deleteHandler", storage)),
             delete, patID, allow)

\* A GetRelated that records the GET route only.
GetRelated_OneEntry(r, storage, matcher, allow) ==
    addRoute(HandleFuncC(r, {get, head}, matcher,
                         HandlerFor(allow, "fetchHandler", storage)),
             get, matcher, allow)

\* Resource.GetRelated
GetRelated(r, storage, matcher, allow) ==
    addRoute(addRoute(HandleFuncC(r, {get, head}, matcher,
                                  HandlerFor(allow, "fetchHandler", storage)),
                      head, matcher, allow),
             get, matcher, allow)

\* Resource.GetRelationship
GetRelationship(r, storage, matcher, allow) ==
    addRoute(addRoute(HandleFuncC(r, {get, head}, matcher,
                                  HandlerFor(allow, "fetchIDHandler", storage)),
                      head, matcher, allow),
             get, matcher, allow)

\* Resource.PatchOne
PatchOne(r, storage, matcher, allow) ==
    addRoute(HandleFuncC(r, {patch}, matcher,
                         HandlerFor(allow, "patchOneHandler", storage)),
             patch, matcher, allow)

\* Resource.ListRelated
ListRelated(r, storage, matcher, allow) ==
    addRoute(addRoute(HandleFuncC(r, {get, head}, matcher,
                                  HandlerFor(allow, "listManyHandler", storage)),
                      head, matcher, allow),
             get, matcher, allow)

\* Resource.ListRelationships
ListRelationships(r, storage, matcher, allow) ==
    addRoute(addRoute(HandleFuncC(r, {get, head}, matcher,
                                  HandlerFor(allow, "listIDHandler", storage)),
                      head, matcher, allow),
             get, matcher, allow)

\* PatchMany installing the handler of PostMany and DeleteMany.
PatchMany_Shared(r, storage, matcher, allow) ==
    addRoute(HandleFuncC(r, {patch}, matcher,
                         HandlerFor(allow, "updateManyHandler", storage)),
             patch, matcher, allow)

\* Resource.PatchMany
PatchMany(r, storage, matcher, allow) ==
    addRoute(HandleFuncC(r, {patch}, matcher,
                         HandlerFor(allow, "patchManyHandler", storage)),
             patch, matcher, allow)

\* Resource.PostMany
PostMany(r, storage, matcher, allow) ==
    addRoute(HandleFuncC(r, {post}, matcher,
                         HandlerFor(allow, "updateManyHandler", storage)),
             post, matcher, allow)

\* Resource.DeleteMany
DeleteMany(r, storage, matcher, allow) ==
    addRoute(HandleFuncC(r, {delete}, matcher,
                         HandlerFor(allow, "updateManyHandler", storage)),
             delete, matcher, allow)

\* res.Relationships[relationship] = kind
SetRelationship(r, relationship, kind) ==
    [r EXCEPT !.Relationships =
        [n \in (DOMAIN @) \cup {relationship} |->
            IF n = relationship THEN kind ELSE @[n]]]

\* A PartialCRUD whose list and fetch can be disallowed with GET.
PartialCRUD_ReadDisallowable(r, storage, disallow) ==
    LET r1 == Options(r, patRoot)
        r2 == List(r1, <<storage, "List">>, ~Contains(disallow, get))
        r3 == Post(r2, <<storage, "Save">>, ~Contains(disallow, post))
        r4 == Options(r3, patID)
        r5 == Get(r4, <<storage, "Get">>, ~Contains(disallow, get))
        r6 == Patch(r5, <<storage, "Update">>, ~Contains(disallow, patch))
    IN  Delete(r6, <<storage, "Delete">>, ~Contains(disallow, delete))

\* Resource.PartialCRUD
PartialCRUD(r, storage, disallow) ==
    LET r1 == Options(r, patRoot)
        r2 == List(r1, <<storage, "List">>, TRUE)
        r3 == Post(r2, <<storage, "Save">>, ~Contains(disallow, post))
        r4 == Options(r3, patID)
        r5 == Get(r4, <<storage, "Get">>, TRUE)
        r6 == Patch(r5, <<storage, "Update">>, ~Contains(disallow, patch))
    IN  Delete(r6, <<storage, "Delete">>, ~Contains(disallow, delete))

\* Resource.CRUD
CRUD(r, storage) == PartialCRUD(r, storage, "")

\* NewCRUDResource
NewCRUDResource(resourceType, storage) == CRUD(NewResource(resourceType), storage)

\* Resource.PartialToOne
PartialToOne(r, relationship, storage, disallow) ==
    LET matcher == patID \o "/" \o relationship
        relationshipMatcher == patID \o "/relationships/" \o relationship
        r1 == Options(r, matcher)
        r2 == GetRelated(r1, <<storage, "GetResource">>, matcher, TRUE)
        r3 == Options(r2, relationshipMatcher)
        r4 == GetRelationship(r3, <<storage, "Get">>, relationshipMatcher, TRUE)
        r5 == PatchOne(r4, <<storage, "Update">>, relationshipMatcher,
                       ~Contains(disallow, patch))
    IN  SetRelationship(r5, relationship, "ToOne")

\* Resource.ToOne
ToOne(r, relationship, storage) == PartialToOne(r, relationship, storage, "")

\* PartialToMany with storage.Save and storage.Delete exchanged.
PartialToMany_Swapped(r, relationship, storage, disallow) ==
    LET matcher == patID \o "/" \o relationship
        relationshipMatcher == patID \o "/relationships/" \o relationship
        r1 == Options(r, matcher)
        r2 == ListRelated(r1, <<storage, "ListResources">>, matcher, TRUE)
        r3 == Options(r2, relationshipMatcher)
        r4 == ListRelationships(r3, <<storage, "List">>, relationshipMatcher, TRUE)
        r5 == PostMany(r4, <<storage, "Delete">>, relationshipMatcher,
                       ~Contains(disallow, post))
        r6 == PatchMany(r5, <<storage, "Update">>, relationshipMatcher,
                        ~Contains(disallow, patch))
        r7 == DeleteMany(r6, <<storage, "Save">>, relationshipMatcher,
                         ~Contains(disallow, delete))
    IN  SetRelationship(r7, relationship, "ToMany")

\* Resource.PartialToMany
PartialToMany(r, relationship, storage, disallow) ==
    LET matcher == patID \o "/" \o relationship
        relationshipMatcher == patID \o "/relationships/" \o relationship
        r1 == Options(r, matcher)
        r2 == ListRelated(r1, <<storage, "ListResources">>, matcher, TRUE)
        r3 == Options(r2, relationshipMatcher)
        r4 == ListRelationships(r3, <<storage, "List">>, relationshipMatcher, TRUE)
        r5 == PostMany(r4, <<storage, "Save">>, relationshipMatcher,
                       ~Contains(disallow, post))
        r6 == PatchMany(r5, <<storage, "Update">>, relationshipMatcher,
                        ~Contains(disallow, patch))
        r7 == DeleteMany(r6, <<storage, "Delete">>, relationshipMatcher,
                         ~Contains(disallow, delete))
    IN  SetRelationship(r7, relationship, "ToMany")

\* Resource.ToMany
ToMany(r, relationship, storage) == PartialToMany(r, relationship, storage, "")

\* An Action that installs the handler without recording a route.
Action_NoRoute(r, action, storage, allow) ==
    LET matcher == PathJoin(<<patID, action>>)
    IN  HandleFuncC(r, {post}, matcher,
                    HandlerFor(allow, "actionHandler", <<storage, "Action">>))

\* Resource.Action
Action(r, action, storage, allow) ==
    LET matcher == PathJoin(<<patID, action>>)
    IN  addRoute(HandleFuncC(r, {post}, matcher,
                             HandlerFor(allow, "actionHandler", <<storage, "Action">>)),
                 post, matcher, allow)

(***************************************************************************)
(* The top-level API.                                                      *)
(***************************************************************************)
\* A New that puts "/" before every prefix.
New_AlwaysSlash(prefix) ==
    [prefix |-> "/" \o prefix, Resources |-> <<>>, Mux |-> <<>>]

\* New
New(prefix) ==
    [prefix |-> IF ~HasPrefix(prefix, "/") THEN "/" \o prefix ELSE prefix,
     Resources |-> <<>>,
     Mux |-> <<>>]

\* An Add that keeps the resource already recorded under the type.
Add_KeepFirst(a, r) ==
    LET matcher == PathJoin(<<a.prefix, r.Type>>)
        idMatcher == PathJoin(<<a.prefix, r.Type, "*">>)
        mounted == [name |-> "resource", storage |-> <<r.ref, "">>]
    IN  [a EXCEPT
            !.Resources = [t \in (DOMAIN @) \cup {r.Type} |->
                              IF t \in DOMAIN @ THEN @[t] ELSE r.ref],
            !.Mux = @ \o <<[methods |-> AnyMethod, pattern |-> matcher,
                            handler |-> mounted],
                           [methods |-> AnyMethod, pattern |-> idMatcher,
                            handler |-> mounted]>>]

\* API.Add: the resource (a pointer) is kept under its type and mounted at
\* /(prefix/)type and /(prefix/)type/*.
Add(a, r) ==
    LET matcher == PathJoin(<<a.prefix, r.Type>>)
        idMatcher == PathJoin(<<a.prefix, r.Type, "*">>)
        mounted == [name |-> "resource", storage |-> <<r.ref, "">>]
    IN  [a EXCEPT
            !.Resources = [t \in (DOMAIN @) \cup {r.Type} |->
                              IF t = r.Type THEN r.ref ELSE @[t]],
            !.Mux = @ \o <<[methods |-> AnyMethod, pattern |-> matcher,
                            handler |-> mounted],
                           [methods |-> AnyMethod, pattern |-> idMatcher,
                            handler |-> mounted]>>]

\* API.Action: the handler is installed in the API's own mux for POST at
\* /(prefix/)action; no Route is recorded anywhere.
API_Action(a, action, storage) ==
    LET matcher == PathJoin(<<a.prefix, action>>)
    IN  [a EXCEPT !.Mux = Append(@, [methods |-> {post}, pattern |-> matcher,
                                     handler |-> [name |-> "API_actionHandler",
                                                  storage |-> <<storage, "Action">>]])]

(***************************************************************************)
(* What a handler hands to SendHandler (a jsh.Sendable): an error, an      *)
(* object, a list, the linkage of a to-one relationship (data is <<>> for  *)
(* nil) or of a to-many relationship (data is <<>> for a nil or empty      *)
(* list).                                                                  *)
(***************************************************************************)
Sendable(kind, status, id, data, title) ==
    [kind |-> kind, Status |-> status, ID |-> id, data |-> data, title |-> title,
     detail |-> ""]

NoSendable == Sendable("none", 0, "", <<>>, "")
NilObject == Sendable("nilobject", 0, "", <<>>, "")
Object(id, status) == Sendable("object", status, id, <<>>, "")
ObjectList == Sendable("list", 0, "", <<>>, "")
IDObject(data) == Sendable("idobject", 0, "", data, "")
IDList(data) == Sendable("idlist", 0, "", data, "")
ErrorObj(status, title, detail) ==
    [Sendable("error", status, "", <<>>, title) EXCEPT !.detail = detail]

\* The errors the handlers build themselves.
ForbiddenError == ErrorObj(403, "Forbidden", "Client-generated IDs are unsupported")
ConflictError(id) == Sendable("error", 409, id, <<>>, "Conflict")
BadRequestError == ErrorObj(400, "Invalid document", "Missing description of changes")
\* The errors of the collaborators: the codec's and the storage's.
ParseError == ErrorObj(422, "Parse error", "")
StorageError == ErrorObj(500, "Storage error", "")

\* err != nil && reflect.ValueOf(err).IsNil() == false, for an error value
\* that is the nil interface ("nil"), a nil pointer in a non-nil interface
\* ("typednil") or an error ("error").
IsError(err) == err # "nil" /\ ~(err = "typednil")

\* What a storage operation returns: its error and its value.
Ret(err, errv, val) == [err |-> err, errv |-> errv, val |-> val]

Failure == Ret("error", StorageError, NoSendable)

\* store.Save, store.Get, store.Update: an object, with or without a status.
ObjectReturns ==
    { Failure,
      Ret("nil", NoSendable, Object("1", 0)),
      Ret("nil", NoSendable, Object("1", 202)) }

\* store.List, store.ToManyListResources
ListReturns == { Failure, Ret("nil", NoSendable, ObjectList) }

\* store.Delete
DeleteReturns ==
    { Failure, Ret("nil", NoSendable, NoSendable),
      Ret("typednil", NoSendable, NoSendable) }

\* store.ToOneGet, store.ToManyList
IDObjectReturns == { Failure, Ret("nil", NoSendable, IDObject(<<"1">>)) }
IDListReturns == { Failure, Ret("nil", NoSendable, IDList(<<"1">>)) }

\* store.ToOneUpdate and store.ToManyUpdate: as MockToOneStorage and
\* MockToManyStorage, a success returns nil.
ToOneUpdateReturns == { Failure, Ret("nil", NoSendable, IDObject(<<>>)) }
ToManyUpdateReturns == { Failure, Ret("nil", NoSendable, IDList(<<>>)) }

\* store.Action: an error, no object at all, or an object.
ActionReturns ==
    { Failure,
      Ret("nil", NoSendable, NilObject),
      Ret("nil", NoSendable, Object("1", 0)),
      Ret("nil", NoSendable, Object("1", 202)) }

(***************************************************************************)
(* Request bodies, by what the codec (jsh.ParseObject,                     *)
(* jsh.ParseRelationship, jsh.ParseRelationshipList) makes of them.        *)
(***************************************************************************)
Body(kind, id, data) == [kind |-> kind, ID |-> id, data |-> data]

NoBody == Body("none", "", <<>>)
InvalidBody == Body("invalid", "", <<>>)
ObjectBodies ==
    { InvalidBody, Body("object", "", <<>>), Body("object", "1", <<>>),
      Body("object", "2", <<>>) }
\* A to-one linkage: null or one identifier.
OneBodies == { InvalidBody, Body("one", "", <<>>), Body("one", "", <<"1">>) }
\* A to-many linkage: a list of identifiers.
ManyBodies == { InvalidBody, Body("many", "", <<>>), Body("many", "", <<"1">>) }

ParseObject(body) ==
    IF body.kind = "object"
    THEN [err |-> "nil", errv |-> NoSendable, val |-> Object(body.ID, 0)]
    ELSE [err |-> "error", errv |-> ParseError, val |-> NoSendable]

ParseRelationship(body) ==
    IF body.kind = "one"
    THEN [err |-> "nil", errv |-> NoSendable, val |-> IDObject(body.data)]
    ELSE [err |-> "error", errv |-> ParseError, val |-> NoSendable]

ParseRelationshipList(body) ==
    IF body.kind = "many"
    THEN [err |-> "nil", errv |-> NoSendable, val |-> IDList(body.data)]
    ELSE [err |-> "error", errv |-> ParseError, val |-> NoSendable]

(***************************************************************************)
(* Responses.  A handler either writes the status line itself or hands a   *)
(* Sendable to SendHandler, which answers with the Sendable's status: an   *)
(* error's own status, an object's Status or, when that is 0, 201 for a    *)
(* POST and 200 otherwise, 204 for a nil linkage and 200 for the rest.     *)
(***************************************************************************)
Response(status, hasAllow, allow, sent) ==
    [status |-> status, hasAllow |-> hasAllow, allow |-> allow, sent |-> sent]

SendStatus(sendable, method) ==
    CASE sendable.kind = "error" -> sendable.Status
      [] sendable.kind = "object" ->
            IF sendable.Status # 0 THEN sendable.Status
            ELSE IF method = post THEN 201 ELSE 200
      [] sendable.kind \in {"idobject", "idlist"} ->
            IF sendable.data = <<>> THEN 204 ELSE 200
      [] sendable.kind \in {"nilobject", "none"} -> 204
      [] OTHER -> 200

SendHandler(req, sendable) ==
    Response(SendStatus(sendable, req.method), FALSE, "", sendable)

\* A storage operation invoked by a handler: the function bound at
\* registration, the identifier and the argument given, and what it returned.
Call(storage, id, arg, ret) ==
    [fn |-> storage, id |-> id, arg |-> arg, ret |-> ret]

\* What a handler did: the storage calls it made and the responses it wrote.
Did(calls, out) == [calls |-> calls, out |-> out]

\* Resource.allowHeader
RECURSIVE allowLoop(_, _, _, _, _)
allowLoop(routes, i, urlPath, methods, sep) ==
    IF i > Len(routes) THEN methods
    ELSE IF routes[i].Allow /\ PatMatch(routes[i].Path, urlPath).ok
        THEN allowLoop(routes, i + 1, urlPath, methods \o sep \o routes[i].Method, ",")
    ELSE allowLoop(routes, i + 1, urlPath, methods, sep)

\* allowHeader without the test of route.Allow: every registered method.
RECURSIVE registeredLoop(_, _, _, _, _)
registeredLoop(routes, i, urlPath, methods, sep) ==
    IF i > Len(routes) THEN methods
    ELSE IF PatMatch(routes[i].Path, urlPath).ok
        THEN registeredLoop(routes, i + 1, urlPath, methods \o sep \o routes[i].Method, ",")
    ELSE registeredLoop(routes, i + 1, urlPath, methods, sep)

allowHeader_Registered(r, req) == registeredLoop(r.Routes, 1, req.path, "", "")

allowHeader(r, req) == allowLoop(r.Routes, 1, req.path, "", "")

\* notAllowedHandler without its Allow header.
notAllowedHandler_NoHeader(r, req) ==
    Did(<<>>, <<Response(405, FALSE, "", NoSendable)>>)

\* Resource.notAllowedHandler
notAllowedHandler(r, req) ==
    Did(<<>>, <<Response(405, TRUE, allowHeader(r, req), NoSendable)>>)

\* optionsHandler writing the status of notAllowedHandler.
optionsHandler_AsNotAllowed(r, req) ==
    Did(<<>>, <<Response(405, TRUE, allowHeader(r, req), NoSendable)>>)

\* Resource.optionsHandler
optionsHandler(r, req) ==
    Did(<<>>, <<Response(200, TRUE, allowHeader(r, req), NoSendable)>>)

\* postHandler rejecting every client-generated identifier, whatever
\* EnableClientGeneratedIDs says.
postHandler_NoToggle(req, storage, ret) ==
    LET parsed == ParseObject(req.body)
    IN  IF IsError(parsed.err) THEN Did(<<>>, <<SendHandler(req, parsed.errv)>>)
        ELSE IF parsed.val.ID # ""
            THEN Did(<<>>, <<SendHandler(req, ForbiddenError)>>)
        ELSE IF IsError(ret.err)
            THEN Did(<<Call(storage, "", parsed.val, ret)>>,
                     <<SendHandler(req, ret.errv)>>)
        ELSE Did(<<Call(storage, "", parsed.val, ret)>>,
                 <<SendHandler(req, ret.val)>>)

\* postHandler defaulting the status of the saved object as actionHandler does.
postHandler_Defaulting200(req, storage, ret) ==
    LET parsed == ParseObject(req.body)
    IN  IF IsError(parsed.err) THEN Did(<<>>, <<SendHandler(req, parsed.errv)>>)
        ELSE IF ~EnableClientGeneratedIDs /\ parsed.val.ID # ""
            THEN Did(<<>>, <<SendHandler(req, ForbiddenError)>>)
        ELSE IF IsError(ret.err)
            THEN Did(<<Call(storage, "", parsed.val, ret)>>,
                     <<SendHandler(req, ret.errv)>>)
        ELSE Did(<<Call(storage, "", parsed.val, ret)>>,
                 <<SendHandler(req, IF ret.val.Status = 0
                                    THEN [ret.val EXCEPT !.Status = 200]
                                    ELSE ret.val)>>)

\* Resource.postHandler
postHandler(req, storage, ret) ==
    LET parsed == ParseObject(req.body)
    IN  IF IsError(parsed.err) THEN Did(<<>>, <<SendHandler(req, parsed.errv)>>)
        ELSE IF ~EnableClientGeneratedIDs /\ parsed.val.ID # ""
            THEN Did(<<>>, <<SendHandler(req, ForbiddenError)>>)
        ELSE IF IsError(ret.err)
            THEN Did(<<Call(storage, "", parsed.val, ret)>>,
                     <<SendHandler(req, ret.errv)>>)
        ELSE Did(<<Call(storage, "", parsed.val, ret)>>,
                 <<SendHandler(req, ret.val)>>)

\* A fetch handler that does not return after sending the error.
fetchHandler_NoReturn(req, storage, ret) ==
    IF IsError(ret.err)
    THEN Did(<<Call(storage, req.id, NoSendable, ret)>>,
             <<SendHandler(req, ret.errv), SendHandler(req, ret.val)>>)
    ELSE Did(<<Call(storage, req.id, NoSendable, ret)>>, <<SendHandler(req, ret.val)>>)

\* Resource.fetchHandler
fetchHandler(req, storage, ret) ==
    IF IsError(ret.err)
    THEN Did(<<Call(storage, req.id, NoSendable, ret)>>, <<SendHandler(req, ret.errv)>>)
    ELSE Did(<<Call(storage, req.id, NoSendable, ret)>>, <<SendHandler(req, ret.val)>>)

\* Resource.listHandler
listHandler(req, storage, ret) ==
    IF IsError(ret.err)
    THEN Did(<<Call(storage, "", NoSendable, ret)>>, <<SendHandler(req, ret.errv)>>)
    ELSE Did(<<Call(storage, "", NoSendable, ret)>>, <<SendHandler(req, ret.val)>>)

\* patchHandler without the comparison of the identifiers.
patchHandler_NoIDCheck(req, storage, ret) ==
    LET parsed == ParseObject(req.body)
    IN  IF IsError(parsed.err) THEN Did(<<>>, <<SendHandler(req, parsed.errv)>>)
        ELSE IF IsError(ret.err)
            THEN Did(<<Call(storage, "", parsed.val, ret)>>,
                     <<SendHandler(req, ret.errv)>>)
        ELSE Did(<<Call(storage, "", parsed.val, ret)>>,
                 <<SendHandler(req, ret.val)>>)

\* Resource.patchHandler
patchHandler(req, storage, ret) ==
    LET parsed == ParseObject(req.body)
    IN  IF IsError(parsed.err) THEN Did(<<>>, <<SendHandler(req, parsed.errv)>>)
        ELSE IF req.id # parsed.val.ID
            THEN Did(<<>>, <<SendHandler(req, ConflictError(parsed.val.ID))>>)
        ELSE IF IsError(ret.err)
            THEN Did(<<Call(storage, "", parsed.val, ret)>>,
                     <<SendHandler(req, ret.errv)>>)
        ELSE Did(<<Call(storage, "", parsed.val, ret)>>,
                 <<SendHandler(req, ret.val)>>)

\* A delete handler that does not return after sending the error.
deleteHandler_NoReturn(req, storage, ret) ==
    IF IsError(ret.err)
    THEN Did(<<Call(storage, req.id, NoSendable, ret)>>,
             <<SendHandler(req, ret.errv), Response(204, FALSE, "", NoSendable)>>)
    ELSE Did(<<Call(storage, req.id, NoSendable, ret)>>,
             <<Response(204, FALSE, "", NoSendable)>>)

\* Resource.deleteHandler
deleteHandler(req, storage, ret) ==
    IF IsError(ret.err)
    THEN Did(<<Call(storage, req.id, NoSendable, ret)>>, <<SendHandler(req, ret.errv)>>)
    ELSE Did(<<Call(storage, req.id, NoSendable, ret)>>,
             <<Response(204, FALSE, "", NoSendable)>>)

\* Resource.actionHandler
actionHandler(req, storage, ret) ==
    IF IsError(ret.err)
    THEN Did(<<Call(storage, "", NoSendable, ret)>>, <<SendHandler(req, ret.errv)>>)
    ELSE LET response ==
                 IF ret.val.kind # "nilobject" /\ ret.val.Status = 0
                 THEN [ret.val EXCEPT !.Status = 200]
                 ELSE ret.val
         IN  Did(<<Call(storage, "", NoSendable, ret)>>,
                 <<SendHandler(req, response)>>)

\* A top-level action handler that leaves the status of the entity alone.
API_actionHandler_NoDefault(req, storage, ret) ==
    IF IsError(ret.err)
    THEN Did(<<Call(storage, "", NoSendable, ret)>>, <<SendHandler(req, ret.errv)>>)
    ELSE Did(<<Call(storage, "", NoSendable, ret)>>, <<SendHandler(req, ret.val)>>)

\* API.actionHandler
API_actionHandler(req, storage, ret) ==
    IF IsError(ret.err)
    THEN Did(<<Call(storage, "", NoSendable, ret)>>, <<SendHandler(req, ret.errv)>>)
    ELSE LET response ==
                 IF ret.val.kind # "nilobject" /\ ret.val.Status = 0
                 THEN [ret.val EXCEPT !.Status = 200]
                 ELSE ret.val
         IN  Did(<<Call(storage, "", NoSendable, ret)>>,
                 <<SendHandler(req, response)>>)

\* A to-one update that refuses a null linkage as the to-many additions
\* refuse an empty list.
patchOneHandler_RejectNull(req, storage, ret) ==
    LET parsed == ParseRelationship(req.body)
    IN  IF parsed.err # "nil" THEN Did(<<>>, <<SendHandler(req, parsed.errv)>>)
        ELSE IF parsed.val.data = <<>>
            THEN Did(<<>>, <<SendHandler(req, BadRequestError)>>)
        ELSE IF IsError(ret.err)
            THEN Did(<<Call(storage, req.id, parsed.val, ret)>>,
                     <<SendHandler(req, ret.errv)>>)
        ELSE Did(<<Call(storage, req.id, parsed.val, ret)>>,
                 <<SendHandler(req, ret.val)>>)

\* Resource.patchOneHandler
patchOneHandler(req, storage, ret) ==
    LET parsed == ParseRelationship(req.body)
    IN  IF parsed.err # "nil" THEN Did(<<>>, <<SendHandler(req, parsed.errv)>>)
        ELSE IF IsError(ret.err)
            THEN Did(<<Call(storage, req.id, parsed.val, ret)>>,
                     <<SendHandler(req, ret.errv)>>)
        ELSE Did(<<Call(storage, req.id, parsed.val, ret)>>,
                 <<SendHandler(req, ret.val)>>)

\* Resource.fetchIDHandler
fetchIDHandler(req, storage, ret) ==
    IF IsError(ret.err)
    THEN Did(<<Call(storage, req.id, NoSendable, ret)>>, <<SendHandler(req, ret.errv)>>)
    ELSE Did(<<Call(storage, req.id, NoSendable, ret)>>, <<SendHandler(req, ret.val)>>)

\* Resource.listManyHandler
listManyHandler(req, storage, ret) ==
    IF IsError(ret.err)
    THEN Did(<<Call(storage, req.id, NoSendable, ret)>>, <<SendHandler(req, ret.errv)>>)
    ELSE Did(<<Call(storage, req.id, NoSendable, ret)>>, <<SendHandler(req, ret.val)>>)

\* Resource.listIDHandler
listIDHandler(req, storage, ret) ==
    IF IsError(ret.err)
    THEN Did(<<Call(storage, req.id, NoSendable, ret)>>, <<SendHandler(req, ret.errv)>>)
    ELSE Did(<<Call(storage, req.id, NoSendable, ret)>>, <<SendHandler(req, ret.val)>>)

\* Resource.patchManyHandler
patchManyHandler(req, storage, ret) ==
    LET parsed == ParseRelationshipList(req.body)
    IN  IF parsed.err # "nil" THEN Did(<<>>, <<SendHandler(req, parsed.errv)>>)
        ELSE IF IsError(ret.err)
            THEN Did(<<Call(storage, req.id, parsed.val, ret)>>,
                     <<SendHandler(req, ret.errv)>>)
        ELSE Did(<<Call(storage, req.id, parsed.val, ret)>>,
                 <<SendHandler(req, ret.val)>>)

\* updateManyHandler without the test of the list's length.
updateManyHandler_NoEmptyCheck(req, storage, ret) ==
    LET parsed == ParseRelationshipList(req.body)
    IN  IF parsed.err # "nil" THEN Did(<<>>, <<SendHandler(req, parsed.errv)>>)
        ELSE IF IsError(ret.err)
            THEN Did(<<Call(storage, req.id, parsed.val, ret)>>,
                     <<SendHandler(req, ret.errv)>>)
        ELSE Did(<<Call(storage, req.id, parsed.val, ret)>>,
                 <<SendHandler(req, ret.val)>>)

\* Resource.updateManyHandler
updateManyHandler(req, storage, ret) ==
    LET parsed == ParseRelationshipList(req.body)
    IN  IF parsed.err # "nil" THEN Did(<<>>, <<SendHandler(req, parsed.errv)>>)
        ELSE IF Len(parsed.val.data) = 0
            THEN Did(<<>>, <<SendHandler(req, BadRequestError)>>)
        ELSE IF IsError(ret.err)
            THEN Did(<<Call(storage, req.id, parsed.val, ret)>>,
                     <<SendHandler(req, ret.errv)>>)
        ELSE Did(<<Call(storage, req.id, parsed.val, ret)>>,
                 <<SendHandler(req, ret.val)>>)

\* goji's answer when no route matches: http.NotFound.
notFound(req) == Did(<<>>, <<Response(404, FALSE, "", NoSendable)>>)

(***************************************************************************)
(* Routing.  A goji mux serves a request with the first route, in          *)
(* registration order, whose methods and pattern match; a resource is      *)
(* mounted in the API's mux as a sub-router, which routes on the rest of   *)
(* the path.                                                               *)
(***************************************************************************)
RECURSIVE routeFrom(_, _, _, _)
routeFrom(mux, i, method, path) ==
    IF i > Len(mux) THEN 0
    ELSE IF (mux[i].methods = AnyMethod \/ method \in mux[i].methods)
            /\ PatMatch(mux[i].pattern, path).ok
        THEN i
    ELSE routeFrom(mux, i + 1, method, path)

NotFoundHandler == [name |-> "notFound", storage |-> NoStorage]

Routed(handler, id) == [handler |-> handler, id |-> id]

ServeSubMux(r, method, path) ==
    LET j == routeFrom(r.Mux, 1, method, path)
    IN  IF j = 0 THEN Routed(NotFoundHandler, "")
        ELSE Routed(r.Mux[j].handler, PatParam(PatMatch(r.Mux[j].pattern, path), "id"))

\* The resources other than res that the embedding program holds: one of
\* the type of res and one of another type, neither with any registration.
OtherType == "U"
OtherResources ==
    { [NewResource(ResourceType) EXCEPT !.ref = "res2"],
      [NewResource(OtherType) EXCEPT !.ref = "res3"] }

\* The resource a mounted route points to.
Pointee(r, ref) ==
    IF ref = r.ref THEN r ELSE CHOOSE o \in OtherResources : o.ref = ref

ServeHTTPC(a, r, method, path) ==
    LET i == routeFrom(a.Mux, 1, method, path)
    IN  IF i = 0 THEN Routed(NotFoundHandler, "")
        ELSE IF a.Mux[i].handler.name = "resource"
            THEN ServeSubMux(Pointee(r, a.Mux[i].handler.storage[1]), method,
                             PatMatch(a.Mux[i].pattern, path).path)
        ELSE Routed(a.Mux[i].handler, PatParam(PatMatch(a.Mux[i].pattern, path), "id"))

(***************************************************************************)
(* The requests of the model.                                              *)
(***************************************************************************)
Methods == {get, head, post, patch, delete, options}
SubPaths ==
    { "/T", "/T/1", "/T/1/a", "/T/1/o", "/T/1/relationships/o",
      "/T/1/m", "/T/1/relationships/m" }
Base == IF api.prefix = "/" THEN "" ELSE api.prefix

NoHandler == [name |-> "", storage |-> NoStorage]
Idle ==
    [phase |-> "idle", method |-> "", path |-> "", id |-> "",
     handler |-> NoHandler, body |-> NoBody, calls |-> <<>>, out |-> <<>>]

Req(body) == [method |-> rt.method, path |-> rt.path, id |-> rt.id, body |-> body]

Serving(name) == rt.phase = "routed" /\ rt.handler.name = name

Respond(body, did) ==
    /\ rt' = [rt EXCEPT !.phase = "done", !.body = body,
                        !.calls = did.calls, !.out = did.out]
    /\ UNCHANGED <<api, res, EnableClientGeneratedIDs, registered>>

Registration(op, name, disallow, allow) ==
    [op |-> op, name |-> name, disallow |-> disallow, allow |-> allow,
     at |-> Len(res.Routes)]

\* The registration calls made on res (registered without the call of New
\* that some behaviours record first).
Registrations == SelectSeq(registered, LAMBDA e : e.op # "New")

Register(r, entry) ==
    /\ rt.phase = "idle"
    /\ Len(Registrations) < MaxCalls
    /\ res' = r
    /\ registered' = Append(registered, entry)
    /\ UNCHANGED <<api, EnableClientGeneratedIDs, rt>>

Init ==
    /\ \E prefix \in PrefixInputs : api = New(prefix)
    /\ res = NewResource(ResourceType)
    /\ EnableClientGeneratedIDs = FALSE
    /\ registered = <<>>
    /\ rt = Idle

\* api.Add(res)
DoAdd ==
    /\ rt.phase = "idle"
    /\ res.Type \notin DOMAIN api.Resources
    /\ api' = Add(api, res)
    /\ UNCHANGED <<res, EnableClientGeneratedIDs, registered, rt>>

\* The package variable is set by the embedding program.
SetEnableClientGeneratedIDs ==
    /\ rt.phase = "idle"
    /\ ~EnableClientGeneratedIDs
    /\ EnableClientGeneratedIDs' = TRUE
    /\ UNCHANGED <<api, res, registered, rt>>

DoPartialCRUD ==
    \E disallow \in DisallowInputs :
        Register(PartialCRUD(res, CRUDStorage, disallow),
                 Registration("PartialCRUD", "", disallow, TRUE))

DoPartialToOne ==
    \E relationship \in ToOneNames, disallow \in ToOneDisallowInputs :
        Register(PartialToOne(res, relationship, ToOneStorage, disallow),
                 Registration("PartialToOne", relationship, disallow, TRUE))

DoPartialToMany ==
    \E relationship \in ToManyNames, disallow \in DisallowInputs :
        Register(PartialToMany(res, relationship, ToManyStorage, disallow),
                 Registration("PartialToMany", relationship, disallow, TRUE))

DoAction ==
    \E action \in ActionNames, allow \in BOOLEAN :
        Register(Action(res, action, ActionStorage, allow),
                 Registration("Action", action, "", allow))

\* A request arrives, once the resource is mounted, and the API's mux
\* routes it.
Receive ==
    /\ rt.phase = "idle"
    /\ res.Type \in DOMAIN api.Resources
    /\ \E method \in Methods, p \in SubPaths :
        LET path == Base \o p
            routed == ServeHTTPC(api, res, method, path)
        IN  rt' = [Idle EXCEPT !.phase = "routed", !.method = method,
                               !.path = path, !.id = routed.id,
                               !.handler = routed.handler]
    /\ UNCHANGED <<api, res, EnableClientGeneratedIDs, registered>>

ServeNotFound == Serving("notFound") /\ Respond(NoBody, notFound(Req(NoBody)))

ServeNotAllowed ==
    Serving("notAllowedHandler") /\ Respond(NoBody, notAllowedHandler(res, Req(NoBody)))

ServeOptions ==
    Serving("optionsHandler") /\ Respond(NoBody, optionsHandler(res, Req(NoBody)))

ServePost ==
    /\ Serving("postHandler")
    /\ \E body \in ObjectBodies, ret \in ObjectReturns :
        Respond(body, postHandler(Req(body), rt.handler.storage, ret))

ServeFetch ==
    /\ Serving("fetchHandler")
    /\ \E ret \in ObjectReturns :
        Respond(NoBody, fetchHandler(Req(NoBody), rt.handler.storage, ret))

ServeList ==
    /\ Serving("listHandler")
    /\ \E ret \in ListReturns :
        Respond(NoBody, listHandler(Req(NoBody), rt.handler.storage, ret))

ServePatch ==
    /\ Serving("patchHandler")
    /\ \E body \in ObjectBodies, ret \in ObjectReturns :
        Respond(body, patchHandler(Req(body), rt.handler.storage, ret))

ServeDelete ==
    /\ Serving("deleteHandler")
    /\ \E ret \in DeleteReturns :
        Respond(NoBody, deleteHandler(Req(NoBody), rt.handler.storage, ret))

ServeAction ==
    /\ Serving("actionHandler")
    /\ \E ret \in ActionReturns :
        Respond(NoBody, actionHandler(Req(NoBody), rt.handler.storage, ret))

ServePatchOne ==
    /\ Serving("patchOneHandler")
    /\ \E body \in OneBodies, ret \in ToOneUpdateReturns :
        Respond(body, patchOneHandler(Req(body), rt.handler.storage, ret))

ServeFetchID ==
    /\ Serving("fetchIDHandler")
    /\ \E ret \in IDObjectReturns :
        Respond(NoBody, fetchIDHandler(Req(NoBody), rt.handler.storage, ret))

ServeListMany ==
    /\ Serving("listManyHandler")
    /\ \E ret \in ListReturns :
        Respond(NoBody, listManyHandler(Req(NoBody), rt.handler.storage, ret))

ServeListID ==
    /\ Serving("listIDHandler")
    /\ \E ret \in IDListReturns :
        Respond(NoBody, listIDHandler(Req(NoBody), rt.handler.storage, ret))

ServePatchMany ==
    /\ Serving("patchManyHandler")
    /\ \E body \in ManyBodies, ret \in ToManyUpdateReturns :
        Respond(body, patchManyHandler(Req(body), rt.handler.storage, ret))

ServeUpdateMany ==
    /\ Serving("updateManyHandler")
    /\ \E body \in ManyBodies, ret \in ToManyUpdateReturns :
        Respond(body, updateManyHandler(Req(body), rt.handler.storage, ret))

\* The response is on the wire; the server takes the next request.
Finish ==
    /\ rt.phase = "done"
    /\ rt' = Idle
    /\ UNCHANGED <<api, res, EnableClientGeneratedIDs, registered>>

Next ==
    \/ DoAdd
    \/ SetEnableClientGeneratedIDs
    \/ DoPartialCRUD
    \/ DoPartialToOne
    \/ DoPartialToMany
    \/ DoAction
    \/ Receive
    \/ ServeNotFound
    \/ ServeNotAllowed
    \/ ServeOptions
    \/ ServePost
    \/ ServeFetch
    \/ ServeList
    \/ ServePatch
    \/ ServeDelete
    \/ ServeAction
    \/ ServePatchOne
    \/ ServeFetchID
    \/ ServeListMany
    \/ ServeListID
    \/ ServePatchMany
    \/ ServeUpdateMany
    \/ Finish

Spec == Init /\ [][Next]_vars

(***************************************************************************)
(* The API seen from the embedding program.  SpecAPI: New with any prefix, *)
(* top-level actions next to the actions and relationships of res, and     *)
(* POST requests at the action paths.  SpecAdd: New with any prefix, Add   *)
(* of several resources (re-adding included) and top-level actions.  The   *)
(* call of New is recorded first in registered, with the prefix it was     *)
(* given.                                                                  *)
(***************************************************************************)
APIPrefixInputs == {"", "api", "/api"}
APIActionNames == {"b"}
APIMethods == {post}
APISubPaths == {"/T/1/a", "/b"}

InitAPI ==
    /\ res = NewResource(ResourceType)
    /\ \E prefix \in APIPrefixInputs :
        /\ api = New(prefix)
        /\ registered = <<Registration("New", prefix, "", TRUE)>>
    /\ EnableClientGeneratedIDs = FALSE
    /\ rt = Idle

\* The routes of the API's mux that mount a resource, and those of its
\* top-level actions.
Mounts == SelectSeq(api.Mux, LAMBDA e : e.handler.name = "resource")
APIActions == SelectSeq(api.Mux, LAMBDA e : e.handler.name = "API_actionHandler")

\* api.Add(r) for any resource the program holds, added before or not.
DoAddAny ==
    /\ rt.phase = "idle"
    /\ Len(Mounts) < 2 * MaxAdds
    /\ \E r \in {res} \cup OtherResources : api' = Add(api, r)
    /\ UNCHANGED <<res, EnableClientGeneratedIDs, registered, rt>>

\* api.Action(action, storage), once for each action name.
DoAPIAction ==
    /\ rt.phase = "idle"
    /\ \E action \in APIActionNames :
        /\ \A i \in DOMAIN APIActions :
              APIActions[i].pattern # PathJoin(<<api.prefix, action>>)
        /\ api' = API_Action(api, action, ActionStorage)
    /\ UNCHANGED <<res, EnableClientGeneratedIDs, registered, rt>>

\* A request arrives and the API's mux routes it.
ReceiveAPI ==
    /\ rt.phase = "idle"
    /\ \E method \in APIMethods, p \in APISubPaths :
        LET path == Base \o p
            routed == ServeHTTPC(api, res, method, path)
        IN  rt' = [Idle EXCEPT !.phase = "routed", !.method = method,
                               !.path = path, !.id = routed.id,
                               !.handler = routed.handler]
    /\ UNCHANGED <<api, res, EnableClientGeneratedIDs, registered>>

ServeAPIAction ==
    /\ Serving("API_actionHandler")
    /\ \E ret \in ActionReturns :
        Respond(NoBody, API_actionHandler(Req(NoBody), rt.handler.storage, ret))

NextAPI ==
    \/ DoAdd
    \/ DoAPIAction
    \/ DoAction
    \/ DoPartialToOne
    \/ ReceiveAPI
    \/ ServeNotFound
    \/ ServeNotAllowed
    \/ ServeAction
    \/ ServeAPIAction
    \/ Finish

SpecAPI == InitAPI /\ [][NextAPI]_vars

NextAdd ==
    \/ DoAddAny
    \/ DoAPIAction

SpecAdd == InitAPI /\ [][NextAdd]_vars

(***************************************************************************)
(* Properties.                                                             *)
(***************************************************************************)
Done == rt.phase = "done"
Added == res.Type \in DOMAIN api.Resources

\* The request path below the API's prefix.
ResPath == Drop(rt.path, Len(Base))

\* Segment-wise matching of a route pattern and a path: as many segments,
\* equal literal segments, a non-empty segment for each parameter.
IsParam(seg) == Len(seg) > 1 /\ Char(seg, 1) = ":"

SegsMatch(a, b) ==
    /\ Len(a) = Len(b)
    /\ \A i \in 1..Len(a) : IF IsParam(a[i]) THEN b[i] # "" ELSE a[i] = b[i]

SegMatch(pt, p) == SegsMatch(Split(pt), Split(p))

\* The methods of the allowed entries of Routes matching p, comma-joined in
\* registration order.
AllowedMethods(p) ==
    LET b == Split(p)
        q == SelectSeq(res.Routes, LAMBDA e : e.Allow /\ SegsMatch(Split(e.Path), b))
    IN  JoinWith([i \in 1..Len(q) |-> q[i].Method], ",")

\* The route table is set up and the resource not yet mounted; what is said
\* of it there does not depend on the API, whose prefix is fixed.
SetUp == rt.phase = "idle" /\ ~Added /\ ~EnableClientGeneratedIDs /\ api.prefix = "/"

AllPaths == SubPaths \cup {"/T/", "/api/T/1", "/T/1/relationships"}

\* C2: for every route table and every request path p, allowHeader is the
\* comma-joined methods, in registration order, of the Routes entries with
\* Allow = TRUE whose Path matches p segment by segment; entries with
\* Allow = FALSE or another pattern never contribute, and a response with no
\* qualifying entry carries the header with an empty value.
C2_AllowHeader ==
    /\ SetUp =>
          \A p \in AllPaths : allowHeader(res, [path |-> p]) = AllowedMethods(p)
    /\ (Done /\ rt.handler.name \in {"notAllowedHandler", "optionsHandler"}) =>
          /\ Len(rt.out) = 1
          /\ rt.out[1].hasAllow
          /\ rt.out[1].allow = AllowedMethods(rt.path)

\* A 405 whose Allow header lists the allowed methods and skips the
\* disallowed POST registered at the same pattern.
C2_Witness ==
    /\ Done
    /\ rt.handler.name = "notAllowedHandler"
    /\ rt.method = post
    /\ rt.path = "/T"
    /\ rt.out[1].allow = "OPTIONS,HEAD,GET"

\* C3: every OPTIONS entry of Routes has Allow = TRUE, and an OPTIONS request
\* at a path where Options was registered is answered 200 with an Allow
\* header, whatever disallow strings were given.
C3_Options ==
    /\ rt.phase = "idle" =>
          \A i \in DOMAIN res.Routes : res.Routes[i].Method = options => res.Routes[i].Allow
    /\ ( /\ Done
         /\ Added
         /\ rt.method = options
         /\ \E i \in DOMAIN res.Routes :
               res.Routes[i].Method = options /\ SegMatch(res.Routes[i].Path, ResPath) )
       => /\ Len(rt.out) = 1
          /\ rt.out[1].status = 200
          /\ rt.out[1].hasAllow

\* OPTIONS at a to-many relationship registered with every mutation
\* disallowed.
C3_Witness ==
    /\ Done
    /\ rt.method = options
    /\ ResPath = "/T/1/relationships/m"
    /\ rt.out[1].status = 200
    /\ \E k \in DOMAIN registered :
          registered[k].op = "PartialToMany" /\ registered[k].disallow # ""

\* The identifier in the request path: the segment after the resource type.
PathID == Split(ResPath)[3]

\* The entries of Routes for method m that match path p, and the first.
EntriesFor(m, p) ==
    LET b == Split(p)
    IN  { i \in DOMAIN res.Routes :
            res.Routes[i].Method = m /\ SegsMatch(Split(res.Routes[i].Path), b) }

FirstFor(m, p) == CHOOSE i \in EntriesFor(m, p) : \A j \in EntriesFor(m, p) : i <= j

MatchesSome(p) ==
    LET b == Split(p)
    IN  \E i \in DOMAIN res.Routes : SegsMatch(Split(res.Routes[i].Path), b)

AllowedFor(m, p) == \E i \in EntriesFor(m, p) : res.Routes[i].Allow

\* A served request with method m at a path matching pattern.
Request(m, pattern) ==
    /\ Done
    /\ Added
    /\ rt.method = m
    /\ SegMatch(pattern, ResPath)

\* Such a request whose method is allowed: the first registration of m at
\* the path, the one the router serves, was made with allow = TRUE.
AllowedRequest(m, pattern) ==
    /\ Request(m, pattern)
    /\ EntriesFor(m, ResPath) # {}
    /\ res.Routes[FirstFor(m, ResPath)].Allow

RelationshipsPath(name) == "/" \o ResourceType \o patID \o "/relationships/" \o name

Mutations == {post, patch, delete}

PartialOps == {"PartialCRUD", "PartialToOne", "PartialToMany"}

\* The methods a helper registers with an allow flag taken from disallow.
Disallowable(op) == IF op = "PartialToOne" THEN {patch} ELSE Mutations

\* The pattern at which a helper serves, or would serve, method m.
PatternOf(e, m) ==
    IF e.op = "PartialCRUD"
    THEN "/" \o ResourceType \o (IF m = post THEN patRoot ELSE patID)
    ELSE RelationshipsPath(e.name)

\* The entries of Routes appended by the k-th registration.
AppendedBy(k) ==
    (registered[k].at + 1) ..
        (IF k < Len(registered) THEN registered[k + 1].at ELSE Len(res.Routes))

HasDisallowedEntry(k, m) ==
    \E i \in AppendedBy(k) :
        res.Routes[i] = [Method |-> m, Path |-> PatternOf(registered[k], m),
                         Allow |-> FALSE]

\* C1 as amended: for every disallow string passed to PartialCRUD or
\* PartialToMany and every method of POST, PATCH, DELETE named in it, and for
\* PartialToOne and PATCH, the call appends to Routes an entry for the method
\* at its pattern with Allow = FALSE; a request with that method at a
\* matching path, when no earlier registration serves the method there, is
\* answered 405 with an Allow header and without a storage call, and the
\* header lists the method only if another registration allowed it at the
\* request's path.  A POST or DELETE named in the disallow string of
\* PartialToOne adds no entry, and such a request is answered 404 when no
\* registration serves the method at the path.  The entries are looked at
\* between requests, where registration happens; a request leaves Routes
\* as it is.
C1_Disallowed ==
    \A k \in DOMAIN registered : \A m \in Mutations :
        LET e == registered[k]
        IN  (e.op \in PartialOps /\ Contains(e.disallow, m)) =>
            IF m \in Disallowable(e.op)
            THEN /\ rt.phase = "idle" => HasDisallowedEntry(k, m)
                 /\ ( /\ Request(m, PatternOf(e, m))
                      /\ \A i \in EntriesFor(m, ResPath) : i > e.at )
                    => /\ Len(rt.out) = 1
                       /\ rt.out[1].status = 405
                       /\ rt.out[1].hasAllow
                       /\ rt.calls = <<>>
                       /\ Contains(rt.out[1].allow, m) => AllowedFor(m, rt.path)
            ELSE /\ rt.phase = "idle" =>
                        \A i \in AppendedBy(k) : res.Routes[i].Method # m
                 /\ ( /\ Request(m, PatternOf(e, m))
                      /\ EntriesFor(m, ResPath) = {} )
                    => /\ Len(rt.out) = 1
                       /\ rt.out[1].status = 404
                       /\ ~rt.out[1].hasAllow
                       /\ rt.calls = <<>>

\* A PATCH of a resource whose PartialCRUD named PATCH in disallow, answered
\* 405 with the methods that remain.
C1_Witness ==
    /\ Request(patch, "/T/:id")
    /\ Len(registered) > 0
    /\ registered[1].op = "PartialCRUD"
    /\ Contains(registered[1].disallow, patch)
    /\ rt.out[1].status = 405
    /\ rt.out[1].allow = "OPTIONS,HEAD,GET,DELETE"

\* C1 as stated: for every disallow string passed to PartialCRUD,
\* PartialToOne or PartialToMany and every method of POST, PATCH, DELETE
\* named in it, Routes has an entry for the method at its pattern with
\* Allow = FALSE, and a request with the method at a matching path is
\* answered 405 with an Allow header not listing it, without a storage call.
C1_Original ==
    \A k \in DOMAIN registered : \A m \in Mutations :
        LET e == registered[k]
        IN  (e.op \in PartialOps /\ Contains(e.disallow, m)) =>
            /\ HasDisallowedEntry(k, m)
            /\ Request(m, PatternOf(e, m))
               => /\ Len(rt.out) = 1
                  /\ rt.out[1].status = 405
                  /\ rt.out[1].hasAllow
                  /\ ~Contains(rt.out[1].allow, m)
                  /\ rt.calls = <<>>

\* C4 as amended: when the request path matches the pattern of some
\* registered route and no entry of Routes allows the request method there,
\* the response is 405 with an Allow header, whose value is allowHeader of
\* the request's URL path, if the method was registered at the path (with
\* allow = FALSE), and the router's 404 without an Allow header if the
\* method was never registered at the path; no storage operation is called.
C4_NotAllowed ==
    (Done /\ Added) =>
        LET entries == EntriesFor(rt.method, ResPath)
        IN  IF \E i \in entries : res.Routes[i].Allow THEN TRUE
            ELSE IF entries # {}
                THEN /\ Len(rt.out) = 1
                     /\ rt.calls = <<>>
                     /\ rt.out[1].status = 405
                     /\ rt.out[1].hasAllow
                     /\ rt.out[1].allow = AllowedMethods(rt.path)
            ELSE \/ /\ Len(rt.out) = 1
                    /\ rt.calls = <<>>
                    /\ rt.out[1].status = 404
                    /\ ~rt.out[1].hasAllow
                 \/ ~MatchesSome(ResPath)

\* A disallowed POST at a to-many relationship, answered 405 with the
\* methods that remain.
C4_Witness ==
    /\ Request(post, RelationshipsPath("m"))
    /\ ~AllowedFor(post, ResPath)
    /\ rt.out[1].status = 405
    /\ rt.out[1].hasAllow
    /\ rt.out[1].allow # ""

\* C4 as stated: when the request path matches the pattern of some
\* registered route and the method is not registered and allowed there, also
\* when it was never registered there, the response is 405 with an Allow
\* header, never a not-found.
C4_Original ==
    ( /\ Done
      /\ Added
      /\ MatchesSome(ResPath)
      /\ ~AllowedFor(rt.method, ResPath) )
    => /\ Len(rt.out) = 1
       /\ rt.out[1].status = 405
       /\ rt.out[1].hasAllow

ResourcePath == "/" \o ResourceType \o patRoot
ResourceIDPath == "/" \o ResourceType \o patID

\* C5: for an allowed PATCH /T/:id whose body parses, an identifier in the
\* path that differs from the body's is answered with a 409 Conflict error
\* and Update is not called, whatever it would have returned; Update is
\* called only when the two identifiers are equal.
C5_IDMismatch ==
    (rt.body.kind = "object" /\ AllowedRequest(patch, ResourceIDPath)) =>
        /\ PathID # rt.body.ID =>
              /\ Len(rt.out) = 1
              /\ rt.out[1].status = 409
              /\ rt.out[1].sent.kind = "error"
              /\ rt.calls = <<>>
        /\ rt.calls # <<>> => PathID = rt.body.ID

\* A PATCH of /T/1 with the object "2".
C5_Witness ==
    /\ AllowedRequest(patch, ResourceIDPath)
    /\ rt.body.kind = "object"
    /\ rt.body.ID = "2"
    /\ PathID = "1"
    /\ rt.out[1].status = 409

\* C6: for an allowed POST /T whose body parses, with
\* EnableClientGeneratedIDs false and a non-empty identifier in the body the
\* response is a 403 Forbidden error and Save is never called; with
\* EnableClientGeneratedIDs true or an empty identifier Save is called
\* exactly once with the parsed object.
C6_ClientGeneratedIDs ==
    (rt.body.kind = "object" /\ AllowedRequest(post, ResourcePath)) =>
        /\ (~EnableClientGeneratedIDs /\ rt.body.ID # "") =>
              /\ Len(rt.out) = 1
              /\ rt.out[1].status = 403
              /\ rt.out[1].sent.kind = "error"
              /\ rt.calls = <<>>
        /\ (EnableClientGeneratedIDs \/ rt.body.ID = "") =>
              /\ Len(rt.calls) = 1
              /\ rt.calls[1].fn = <<CRUDStorage, "Save">>
              /\ rt.calls[1].arg = Object(rt.body.ID, 0)

\* A POST with a client-generated identifier while the option is off.
C6_Witness ==
    /\ AllowedRequest(post, ResourcePath)
    /\ ~EnableClientGeneratedIDs
    /\ rt.body.kind = "object"
    /\ rt.body.ID = "1"
    /\ rt.out[1].status = 403

\* A successful create: Save was called and returned no error.
Created ==
    /\ Len(rt.calls) = 1
    /\ AllowedRequest(post, ResourcePath)
    /\ ~IsError(rt.calls[1].ret.err)

\* C7 as amended: on a successful create the handler hands the object
\* returned by Save to the response sender as it is: a status the storage
\* set is left unchanged and an unset status stays unset, so that the sender
\* answers with its default for a POST, 201.
C7_PostKeepsStatus ==
    Created =>
        /\ Len(rt.out) = 1
        /\ rt.out[1].sent = rt.calls[1].ret.val
        /\ rt.out[1].status =
              IF rt.calls[1].ret.val.Status = 0 THEN 201
              ELSE rt.calls[1].ret.val.Status

\* A create whose saved object has no status, answered 201.
C7_Witness ==
    /\ Created
    /\ rt.calls[1].ret.val.Status = 0
    /\ rt.out[1].sent.Status = 0
    /\ rt.out[1].status = 201

\* C7 as stated: on a successful create, an object returned by Save without
\* a status is handed to the response sender with status 200; a status
\* already set is left unchanged.
C7_Original ==
    Created =>
        /\ Len(rt.out) = 1
        /\ rt.out[1].sent.Status =
              IF rt.calls[1].ret.val.Status = 0 THEN 200
              ELSE rt.calls[1].ret.val.Status

EmptyList == rt.body.kind = "many" /\ rt.body.data = <<>>
NonEmptyList == rt.body.kind = "many" /\ rt.body.data # <<>>

\* C8: for an allowed to-many POST or DELETE at /T/:id/relationships/R whose
\* body parses to an empty list, the response is the 400 Bad Request error
\* "Missing description of changes" and the storage is not called.
C8_EmptyListRejected ==
    \A m \in {post, delete}, name \in ToManyNames :
        (EmptyList /\ AllowedRequest(m, RelationshipsPath(name))) =>
            /\ Len(rt.out) = 1
            /\ rt.out[1].status = 400
            /\ rt.out[1].sent = BadRequestError
            /\ rt.out[1].sent.detail = "Missing description of changes"
            /\ rt.calls = <<>>

\* A DELETE of no linkage at all.
C8_Witness ==
    /\ AllowedRequest(delete, RelationshipsPath("m"))
    /\ EmptyList
    /\ rt.out[1].status = 400

BoundToMany(m) ==
    CASE m = post -> "Save"
      [] m = patch -> "Update"
      [] m = delete -> "Delete"

ActionServed ==
    /\ Done
    /\ rt.handler.name \in {"actionHandler", "API_actionHandler"}

\* C11: for a resource action registered with allow and for a top-level
\* action alike, the action is called once; when it returns an error the
\* error is sent as it is, with its own status; when it returns an entity
\* without a status the entity is sent with status 200; when the entity has
\* a status, the entity is sent with that status.
C11_ActionStatus ==
    ActionServed =>
        /\ Len(rt.calls) = 1
        /\ Len(rt.out) = 1
        /\ LET ret == rt.calls[1].ret
               out == rt.out[1]
           IN  /\ IsError(ret.err) =>
                     /\ out.sent = ret.errv
                     /\ out.status = ret.errv.Status
               /\ (~IsError(ret.err) /\ ret.val.kind = "object"
                   /\ ret.val.Status = 0) =>
                     /\ out.sent = [ret.val EXCEPT !.Status = 200]
                     /\ out.status = 200
               /\ (~IsError(ret.err) /\ ret.val.kind = "object"
                   /\ ret.val.Status # 0) =>
                     /\ out.sent = ret.val
                     /\ out.status = ret.val.Status

\* A top-level action that returned an entity without a status, answered
\* 200, on an API that also serves a resource action.
C11_Witness ==
    /\ ActionServed
    /\ rt.handler.name = "API_actionHandler"
    /\ rt.method = post
    /\ \E i \in DOMAIN res.Mux : res.Mux[i].handler.name = "actionHandler"
    /\ ~IsError(rt.calls[1].ret.err)
    /\ rt.calls[1].ret.val.kind = "object"
    /\ rt.calls[1].ret.val.Status = 0
    /\ rt.out[1].status = 200

\* C12: for an allowed DELETE /T/:id, Delete is called exactly once, with
\* the identifier of the path; when it returns no error the one response is
\* 204 without a body, and when it returns an error the one response is that
\* error and no 204 is written.
C12_Delete ==
    AllowedRequest(delete, ResourceIDPath) =>
        /\ Len(rt.calls) = 1
        /\ rt.calls[1].fn = <<CRUDStorage, "Delete">>
        /\ rt.calls[1].id = PathID
        /\ Len(rt.out) = 1
        /\ (rt.out[1].status = 204 /\ rt.out[1].sent = NoSendable)
              <=> ~IsError(rt.calls[1].ret.err)
        /\ IsError(rt.calls[1].ret.err) =>
              /\ rt.out[1].sent = rt.calls[1].ret.errv
              /\ \A i \in DOMAIN rt.out : rt.out[i].status # 204

\* A DELETE of /T/1 whose storage failed, answered with the storage's error.
C12_Witness ==
    /\ AllowedRequest(delete, ResourceIDPath)
    /\ rt.calls[1].id = "1"
    /\ IsError(rt.calls[1].ret.err)
    /\ rt.out[1].sent = StorageError
    /\ rt.out[1].status = 500

\* The first registration on res was PartialCRUD with nothing disallowed,
\* which is what CRUD does.
FreshCRUD ==
    /\ Len(registered) >= 1
    /\ registered[1].op = "PartialCRUD"
    /\ registered[1].disallow = ""

RouteOf(method, route, allow) ==
    [Method |-> method, Path |-> "/" \o ResourceType \o route, Allow |-> allow]

\* C13 as amended: registering a fresh resource with CRUD fully enabled
\* produces exactly 9 entries in Routes, all allowed: OPTIONS, HEAD, GET and
\* POST at /T, then OPTIONS, HEAD, GET, PATCH and DELETE at /T/:id; the same
\* holds of NewCRUDResource for every type.
C13_CRUDRoutes ==
    /\ FreshCRUD =>
          SubSeq(res.Routes, 1, 9) =
              << RouteOf(options, patRoot, TRUE), RouteOf(head, patRoot, TRUE),
                 RouteOf(get, patRoot, TRUE), RouteOf(post, patRoot, TRUE),
                 RouteOf(options, patID, TRUE), RouteOf(head, patID, TRUE),
                 RouteOf(get, patID, TRUE), RouteOf(patch, patID, TRUE),
                 RouteOf(delete, patID, TRUE) >>
    /\ (FreshCRUD /\ Len(registered) = 1) => Len(res.Routes) = 9
    /\ SetUp =>
          \A t \in {ResourceType, OtherType} :
              Len(NewCRUDResource(t, CRUDStorage).Routes) = 9

\* A resource on which CRUD alone was registered, with its 9 routes.
C13_Witness ==
    /\ FreshCRUD
    /\ Len(registered) = 1
    /\ Len(res.Routes) = 9
    /\ res.Routes[2].Method = head
    /\ res.Routes[3].Method = get

\* C13 as stated: registering a fresh resource with CRUD fully enabled
\* produces exactly 7 entries in Routes.
C13_Original ==
    (FreshCRUD /\ Len(registered) = 1) => Len(res.Routes) = 7

\* The number of Routes entries a registration helper appends.
Appends(op) ==
    CASE op = "PartialCRUD" -> 9
      [] op = "PartialToOne" -> 7
      [] op = "PartialToMany" -> 9
      [] op = "Action" -> 1

\* The number of calls of a helper made on res so far.
CallsOf(op) == Cardinality({ k \in DOMAIN registered : registered[k].op = op })

\* C14: each registration helper appends a fixed number of Routes entries,
\* whatever its disallow string or allow flag and whatever was registered
\* before: PartialCRUD 9, PartialToOne 7, PartialToMany 9 and Action 1, the
\* entry of Action being the last of the table after the call and reading
\* POST /T/:id/<action>; so the length of Routes is 9 for each PartialCRUD
\* plus 7 for each PartialToOne plus 9 for each PartialToMany plus 1 for
\* each Action.
C14_RouteCounts ==
    /\ \A k \in DOMAIN registered :
          /\ Cardinality(AppendedBy(k)) = Appends(registered[k].op)
          /\ registered[k].op = "Action" =>
                res.Routes[registered[k].at + 1] =
                    [Method |-> post,
                     Path |-> "/" \o ResourceType \o "/:id/" \o registered[k].name,
                     Allow |-> registered[k].allow]
    /\ (registered # <<>> /\ registered[Len(registered)].op = "Action") =>
          res.Routes[Len(res.Routes)].Method = post
    /\ Len(res.Routes) =
          9 * CallsOf("PartialCRUD") + 7 * CallsOf("PartialToOne")
          + 9 * CallsOf("PartialToMany") + CallsOf("Action")

\* A disallowed Action registered after a PartialToOne with PATCH
\* disallowed: 8 routes, the last one the action's.
C14_Witness ==
    /\ Len(registered) = 2
    /\ registered[1].op = "PartialToOne"
    /\ registered[1].disallow = "GET,PATCH"
    /\ registered[2].op = "Action"
    /\ ~registered[2].allow
    /\ Len(res.Routes) = 8
    /\ res.Routes[8] = [Method |-> post, Path |-> "/T/:id/a", Allow |-> FALSE]

\* The Routes entries that stand for one handler of the resource's mux: one
\* for each method its pattern takes, HEAD before GET.
EntriesOf(e) ==
    LET allow == e.handler.name # "notAllowedHandler"
    IN  IF e.methods = {get, head}
        THEN << RouteOf(head, e.pattern, allow), RouteOf(get, e.pattern, allow) >>
        ELSE << RouteOf(CHOOSE m \in e.methods : TRUE, e.pattern, allow) >>

RECURSIVE EntriesOfAll(_)
EntriesOfAll(mux) ==
    IF mux = <<>> THEN <<>>
    ELSE EntriesOfAll(SubSeq(mux, 1, Len(mux) - 1)) \o EntriesOf(mux[Len(mux)])

\* The handlers installed for GET, which also serve HEAD.
ReadHandlers == SelectSeq(res.Mux, LAMBDA e : e.methods = {get, head})

CRUDEntries(d) ==
    << RouteOf(options, patRoot, TRUE), RouteOf(head, patRoot, TRUE),
       RouteOf(get, patRoot, TRUE), RouteOf(post, patRoot, ~Contains(d, post)),
       RouteOf(options, patID, TRUE), RouteOf(head, patID, TRUE),
       RouteOf(get, patID, TRUE), RouteOf(patch, patID, ~Contains(d, patch)),
       RouteOf(delete, patID, ~Contains(d, delete)) >>

\* Disallow strings beyond those the registrations of the model use.
MoreDisallowInputs ==
    DisallowInputs \cup {"GET", "HEAD", "HEAD,GET,OPTIONS", "PATCH,POST,DELETE", "post"}

\* C16: for every disallow string d given to PartialCRUD, the list and
\* fetch routes (HEAD and GET at /T and /T/:id) are recorded with Allow =
\* TRUE even when d names GET or HEAD, and the route of each of POST, PATCH
\* and DELETE is recorded with Allow = FALSE exactly when the method occurs
\* in d; a token changes the flag of no other method.
C16_ReadsAlwaysAllowed ==
    /\ \A k \in DOMAIN registered :
          registered[k].op = "PartialCRUD" =>
              SubSeq(res.Routes, registered[k].at + 1, registered[k].at + 9) =
                  CRUDEntries(registered[k].disallow)
    /\ SetUp =>
          \A d \in MoreDisallowInputs :
              PartialCRUD(res, CRUDStorage, d).Routes = res.Routes \o CRUDEntries(d)

\* A PartialCRUD with "GET,PATCH": GET and HEAD stay allowed, PATCH is not,
\* POST and DELETE are.
C16_Witness ==
    \E k \in DOMAIN registered :
        /\ registered[k].op = "PartialCRUD"
        /\ registered[k].disallow = "GET,PATCH"
        /\ res.Routes[registered[k].at + 3] = RouteOf(get, patRoot, TRUE)
        /\ res.Routes[registered[k].at + 6] = RouteOf(head, patID, TRUE)
        /\ res.Routes[registered[k].at + 8] = RouteOf(patch, patID, FALSE)
        /\ res.Routes[registered[k].at + 9] = RouteOf(delete, patID, TRUE)

\* The resources added to the API so far, in the order of the calls of Add
\* (each call mounts its resource twice), and the type of each.
AddedRefs ==
    [k \in 1..(Len(Mounts) \div 2) |-> Mounts[2 * k - 1].handler.storage[1]]
TypeOfRef(ref) == Pointee(res, ref).Type
AddsOfType(t) == { k \in DOMAIN AddedRefs : TypeOfRef(AddedRefs[k]) = t }

\* C17: after any sequence of calls of Add, Resources has exactly one entry
\* for each type added, and the entry of a type is the resource of the
\* latest Add of that type: adding a type again replaces its entry and
\* leaves the entries of the other types as they were.
C17_ResourcesMap ==
    /\ DOMAIN api.Resources = { TypeOfRef(AddedRefs[k]) : k \in DOMAIN AddedRefs }
    /\ \A t \in DOMAIN api.Resources :
          \E k \in AddsOfType(t) :
              /\ \A j \in AddsOfType(t) : j <= k
              /\ api.Resources[t] = AddedRefs[k]

\* The other type added first, then res, then the second resource of the
\* type of res: the entry of T is the second resource, that of U is kept.
C17_Witness ==
    /\ AddedRefs = <<"res3", "res", "res2">>
    /\ DOMAIN api.Resources = {ResourceType, OtherType}
    /\ api.Resources[ResourceType] = "res2"
    /\ api.Resources[OtherType] = "res3"

\* The prefix given to New, and prefixes beyond those the model builds its
\* API with.
GivenPrefix == registered[1].name
MorePrefixInputs == APIPrefixInputs \cup {"/", "a/b", "/a/b", "//a", "api/"}

\* What C18 says of the API built by New from prefix p.
Normalised(p, a) ==
    /\ HasPrefix(a.prefix, "/")
    /\ HasPrefix(p, "/") => a.prefix = p
    /\ ~HasPrefix(p, "/") => a.prefix = "/" \o p
    /\ New(a.prefix).prefix = a.prefix

\* C18: the API built by New(p) has a prefix that begins with "/": p itself
\* when p begins with "/", otherwise "/" followed by p, the empty string
\* included; New of an already normalised prefix stores it unchanged.  No
\* later call changes the prefix.
C18_PrefixNormalised ==
    /\ registered[1].op = "New"
    /\ Normalised(GivenPrefix, api)
    /\ \A p \in MorePrefixInputs : Normalised(p, New(p))

\* An API built with "api", whose resources are mounted under "/api".
C18_Witness ==
    /\ GivenPrefix = "api"
    /\ api.prefix = "/api"
    /\ Len(Mounts) > 0
    /\ Mounts[1].pattern = "/api/" \o TypeOfRef(AddedRefs[1])

\* C19: for an allowed PATCH at /T/:id/relationships/R of a to-one
\* relationship whose body parses, Update is called exactly once with the
\* identifier of the path and the parsed linkage, for a linkage of one
\* identifier and for a null linkage alike; the one response is what Update
\* returned or its error, never a rejection by the handler.
C19_PatchOne ==
    \A name \in ToOneNames :
        (rt.body.kind = "one" /\ AllowedRequest(patch, RelationshipsPath(name))) =>
            /\ Len(rt.calls) = 1
            /\ rt.calls[1].fn = <<ToOneStorage, "Update">>
            /\ rt.calls[1].id = PathID
            /\ rt.calls[1].arg = IDObject(rt.body.data)
            /\ Len(rt.out) = 1
            /\ rt.out[1].sent =
                  IF IsError(rt.calls[1].ret.err) THEN rt.calls[1].ret.errv
                  ELSE rt.calls[1].ret.val

\* A PATCH of /T/1/relationships/o with a null linkage: Update is called
\* with it and the answer is 204.
C19_Witness ==
    /\ AllowedRequest(patch, RelationshipsPath("o"))
    /\ rt.body = Body("one", "", <<>>)
    /\ Len(rt.calls) = 1
    /\ rt.calls[1].id = "1"
    /\ rt.calls[1].arg = IDObject(<<>>)
    /\ rt.out[1].status = 204

\* The handlers bound to a storage operation, those that parse a body, and
\* the kind of body each expects.
StorageHandlers ==
    { "postHandler", "fetchHandler", "listHandler", "patchHandler", "deleteHandler",
      "actionHandler", "patchOneHandler", "fetchIDHandler", "listManyHandler",
      "listIDHandler", "patchManyHandler", "updateManyHandler" }

ExpectedBody(name) ==
    CASE name \in {"postHandler", "patchHandler"} -> "object"
      [] name = "patchOneHandler" -> "one"
      [] name \in {"patchManyHandler", "updateManyHandler"} -> "many"
      [] OTHER -> "none"

\* The body of the request does not parse, or a check of the handler on the
\* parsed body fails: a client-generated identifier when these are off, an
\* identifier other than the path's, an empty list of linkages.
ParseFails == rt.body.kind # ExpectedBody(rt.handler.name)
ValidationFails ==
    \/ rt.handler.name = "postHandler" /\ ~EnableClientGeneratedIDs /\ rt.body.ID # ""
    \/ rt.handler.name = "patchHandler" /\ rt.body.ID # rt.id
    \/ rt.handler.name = "updateManyHandler" /\ rt.body.data = <<>>

\* C20: for every handler bound to a storage operation and every request,
\* the operation is called at most once, and not at all when the body does
\* not parse or a check of the handler fails, the answer then being an
\* error; an error of the operation is handed unchanged to the response
\* sender; and exactly one response is produced, never an error followed by
\* a success.
C20_OneCallOneResponse ==
    (Done /\ rt.handler.name \in StorageHandlers) =>
        /\ Len(rt.calls) <= 1
        /\ Len(rt.out) = 1
        /\ (ParseFails \/ ValidationFails) <=> rt.calls = <<>>
        /\ rt.calls = <<>> => rt.out[1].sent.kind = "error"
        /\ (rt.calls # <<>> /\ IsError(rt.calls[1].ret.err)) =>
              /\ rt.out[1].sent = rt.calls[1].ret.errv
              /\ rt.out[1].status = rt.calls[1].ret.errv.Status
        /\ (rt.calls # <<>> /\ ~IsError(rt.calls[1].ret.err)) =>
              rt.out[1].sent.kind # "error"

\* A fetch whose storage failed: one call, and the storage's error as the
\* only response.
C20_Witness ==
    /\ Done
    /\ rt.handler.name = "fetchHandler"
    /\ Len(rt.calls) = 1
    /\ IsError(rt.calls[1].ret.err)
    /\ rt.out = <<SendHandler(Req(NoBody), StorageError)>>

\* A step of the handling of a request: its arrival and routing, the run of
\* its handler, the end of its response.  The registrations leave rt alone.
RequestStep == rt' # rt

AllowAnswered ==
    /\ Done
    /\ Added
    /\ rt.handler.name \in {"notAllowedHandler", "optionsHandler"}

\* C22: whatever the prefix of the API, the Allow header of an OPTIONS or
\* 405 response lists the methods registered and allowed at the path of the
\* request below the prefix, the path at which the resource serves it.
C22_PrefixIndependent ==
    AllowAnswered =>
        /\ Len(rt.out) = 1
        /\ rt.out[1].hasAllow
        /\ rt.out[1].allow = AllowedMethods(ResPath)

\* C22 for the root prefix alone, where the path below the prefix is the
\* whole path of the request.
C22_AtRootPrefix ==
    (AllowAnswered /\ api.prefix = "/") =>
        /\ Len(rt.out) = 1
        /\ rt.out[1].hasAllow
        /\ rt.out[1].allow = AllowedMethods(ResPath)

\* OPTIONS /api/T on a resource with its CRUD routes, answered 200 with an
\* empty Allow header.
C22_Witness ==
    /\ AllowAnswered
    /\ api.prefix = "/api"
    /\ rt.method = options
    /\ rt.path = "/api/T"
    /\ rt.out[1].status = 200
    /\ rt.out[1].allow = ""
    /\ AllowedMethods(ResPath) # ""

\* The handler the API dispatches a request with method m at the path of
\* the current request to.
DispatchOf(m) == ServeHTTPC(api, res, m, rt.path).handler.name

\* What C23 says of a response with an Allow header: a 405 does not list
\* the method it refuses, and every method listed is dispatched at the path
\* to a handler other than the 405 handler and the router's 404.
AllowAgrees ==
    /\ Len(rt.out) = 1
    /\ rt.out[1].status = 405 => ~Contains(rt.out[1].allow, rt.method)
    /\ \A m \in Methods :
          Contains(rt.out[1].allow, m) =>
              DispatchOf(m) \notin {"notAllowedHandler", "notFound"}

\* C23: after any sequence of registrations on the resource, the same
\* method and pattern registered more than once with different allow flags
\* included, the Allow header agrees with the dispatch: a request answered
\* 405 does not have its method in the Allow header, and every method in
\* the Allow header at a path is dispatched to its handler at that path.
C23_AllowMatchesDispatch == AllowAnswered => AllowAgrees

\* No method and pattern is registered twice with different allow flags.
NoConflictingRoutes ==
    \A i, j \in DOMAIN res.Routes :
        (res.Routes[i].Method = res.Routes[j].Method
         /\ res.Routes[i].Path = res.Routes[j].Path)
            => res.Routes[i].Allow = res.Routes[j].Allow

\* C23 for the route tables in which no method and pattern is registered
\* twice with different allow flags.
C23_WithoutConflicts == (AllowAnswered /\ NoConflictingRoutes) => AllowAgrees

\* A POST refused with 405 whose Allow header lists POST: the method was
\* registered at the pattern first disallowed, then allowed.
C23_Witness ==
    /\ AllowAnswered
    /\ rt.method = post
    /\ rt.out[1].status = 405
    /\ Contains(rt.out[1].allow, post)
    /\ ~NoConflictingRoutes

\* The registrations of a GET operation, each applied to resource r with
\* the given allow flag: List, Get, and the four relationship reads; with
\* each, a request path its pattern matches.
GetRegistrations(r, allow) ==
    { [r |-> List(r, <<CRUDStorage, "List">>, allow), path |-> "/T"],
      [r |-> Get(r, <<CRUDStorage, "Get">>, allow), path |-> "/T/1"],
      [r |-> GetRelated(r, <<ToOneStorage, "GetResource">>, patID \o "/o", allow),
       path |-> "/T/1/o"],
      [r |-> GetRelationship(r, <<ToOneStorage, "Get">>,
                             patID \o "/relationships/o", allow),
       path |-> "/T/1/relationships/o"],
      [r |-> ListRelated(r, <<ToManyStorage, "ListResources">>, patID \o "/m", allow),
       path |-> "/T/1/m"],
      [r |-> ListRelationships(r, <<ToManyStorage, "List">>,
                               patID \o "/relationships/m", allow),
       path |-> "/T/1/relationships/m"] }

\* In the routes of r every HEAD entry is followed by a GET entry of the
\* same path and flag, and every GET entry follows such a HEAD entry.
HeadMirrorsGet(r) ==
    \A i \in DOMAIN r.Routes :
        /\ r.Routes[i].Method = head =>
              /\ i < Len(r.Routes)
              /\ r.Routes[i + 1] = [r.Routes[i] EXCEPT !.Method = get]
        /\ r.Routes[i].Method = get =>
              /\ i > 1
              /\ r.Routes[i - 1] = [r.Routes[i] EXCEPT !.Method = head]

\* HEAD is in an Allow header exactly when GET is.
BothOrNeither(header) == Contains(header, head) <=> Contains(header, get)

\* C24: every registration of a GET operation appends a HEAD entry and a
\* GET entry with the same path and the same Allow flag, allowed or not, and
\* nothing adds a HEAD entry alone (the route table is looked at between
\* requests, which do not change it); so after any sequence of
\* registrations, for every request path, HEAD is in the Allow header if and
\* only if GET is, in the header computed for the path and in the header of
\* every OPTIONS or 405 response sent.
C24_HeadMirrorsGet ==
    /\ rt.phase = "idle" => HeadMirrorsGet(res)
    /\ (Done /\ rt.handler.name \in {"notAllowedHandler", "optionsHandler"}) =>
          BothOrNeither(rt.out[1].allow)
    /\ SetUp =>
          /\ \A p \in AllPaths : BothOrNeither(allowHeader(res, [path |-> p]))
          /\ \A allow \in BOOLEAN : \A g \in GetRegistrations(res, allow) :
                /\ Len(g.r.Routes) = Len(res.Routes) + 2
                /\ g.r.Routes[Len(g.r.Routes)].Allow = allow
                /\ g.r.Routes[Len(g.r.Routes)].Method = get
                /\ HeadMirrorsGet(g.r)
                /\ BothOrNeither(allowHeader(g.r, [path |-> g.path]))
                /\ allow => Contains(allowHeader(g.r, [path |-> g.path]), head)

\* A refused PATCH at /T/1 whose Allow header lists HEAD and GET, after a
\* PartialCRUD that named GET in its disallow string.
C24_Witness ==
    /\ Done
    /\ rt.handler.name = "notAllowedHandler"
    /\ rt.method = patch
    /\ rt.path = "/T/1"
    /\ registered[1].disallow = "GET,PATCH"
    /\ Contains(rt.out[1].allow, head)
    /\ Contains(rt.out[1].allow, get)

====
